---- MODULE Spec2Model ----
(***************************************************************************)
(* WonderWords (src/main.py): a Streamlit script that looks a word up with *)
(* a language model, validates the reply into a WordInfo record, probes an *)
(* image URL and keeps the records of the session in an insertion-ordered  *)
(* dict, st.session_state.history.                                         *)
(*                                                                         *)
(* Texts are sequences of lexemes: single characters for everything the    *)
(* script itself inspects (backticks, the letters of the "json" tag,       *)
(* whitespace, JSON punctuation) and one lexeme per JSON string literal,   *)
(* number or null.                                                         *)
(***************************************************************************)
EXTENDS Integers, Sequences, FiniteSets, TLC

\* ------------------------------------------------------------------ bounds
MaxWordLen == 2
MaxHistory == 2

\* ------------------------------------------------------- text primitives
WS == {" ", "\n"}

RECURSIVE lstrip(_)
lstrip(s) ==
  IF s = <<>> THEN s
  ELSE IF Head(s) \in WS THEN lstrip(Tail(s)) ELSE s

RECURSIVE rstrip(_)
rstrip(s) ==
  IF s = <<>> THEN s
  ELSE IF s[Len(s)] \in WS THEN rstrip(SubSeq(s, 1, Len(s) - 1)) ELSE s

\* mutation: the input is tested and used as typed
strip_none(s) == s

\* str.strip()
strip(s) == rstrip(lstrip(s))

lowerChar(c) == IF c = "A" THEN "a" ELSE c

\* str.lower()
lower(s) == [i \in 1..Len(s) |-> lowerChar(s[i])]

\* ------------------------------------------- sanitation (re.sub, l. 76-78)
\* the backtick character (the lexeme is spelled out: the character itself
\* cannot be written in a string of this notation)
Backtick == "<backtick>"

Fence == <<Backtick, Backtick, Backtick>>
JsonFence == Fence \o <<"j", "s", "o", "n">>

StartsWithAt(s, i, p) ==
  /\ i + Len(p) - 1 <= Len(s)
  /\ SubSeq(s, i, i + Len(p) - 1) = p

\* whitespace run of the pattern: the position after the longest run of
\* whitespace that starts at i
RECURSIVE SkipSpace(_, _)
SkipSpace(s, i) ==
  IF i <= Len(s) /\ s[i] \in WS THEN SkipSpace(s, i + 1) ELSE i

\* end anchor without re.MULTILINE: the end of the text, or just before a
\* newline that ends the text
AtEnd(s, i) == i = Len(s) + 1 \/ (i = Len(s) /\ s[i] = "\n")

\* first alternative (start anchor, fence, json tag, whitespace run):
\* position after the match, 0 when it does not match
MatchOpen(s) == IF StartsWithAt(s, 1, JsonFence) THEN SkipSpace(s, Len(JsonFence) + 1) ELSE 0

\* second alternative (whitespace run, fence, end anchor) tried at i:
\* position after the match, 0 when it does not match
MatchClose(s, i) ==
  LET j == SkipSpace(s, i)
  IN IF StartsWithAt(s, j, Fence) /\ AtEnd(s, j + 3) THEN j + 3 ELSE 0

\* the pattern tried at position i, first alternative first
MatchAt(s, i) ==
  IF i = 1 /\ MatchOpen(s) # 0 THEN MatchOpen(s) ELSE MatchClose(s, i)

\* re.sub(pattern, "", s) from position i on: find the leftmost position
\* where the pattern matches, keep the text before it, drop the match and
\* go on after it
RECURSIVE SubFrom(_, _)
SubFrom(s, i) ==
  LET starts == {m \in i..Len(s) : MatchAt(s, m) # 0}
  IN IF starts = {} THEN SubSeq(s, i, Len(s))
     ELSE LET m == CHOOSE x \in starts : \A y \in starts : x <= y
          IN SubSeq(s, i, m - 1) \o SubFrom(s, MatchAt(s, m))

\* the cleaned response text: re.sub of the pattern on response_text.strip()
Sanitize(text) == SubFrom(strip(text), 1)

\* ------------------------------------------------- JSON text (json.loads)
\* string literals that occur in the responses, with the str they decode to
Unquote ==
  [x \in {"\"meaning\"", "\"opposites\"", "\"similar_words\"", "\"sentences\"",
          "\"image_prompt\"", "\"m1\"", "\"m2\"", "\"w1\"", "\"a sun\""} |->
     CASE x = "\"meaning\"" -> "meaning"
       [] x = "\"opposites\"" -> "opposites"
       [] x = "\"similar_words\"" -> "similar_words"
       [] x = "\"sentences\"" -> "sentences"
       [] x = "\"image_prompt\"" -> "image_prompt"
       [] x = "\"m1\"" -> "m1"
       [] x = "\"m2\"" -> "m2"
       [] x = "\"w1\"" -> "w1"
       [] x = "\"a sun\"" -> "a sun"]

StringLexemes == DOMAIN Unquote
NumberLexemes == {"5"}

\* decoded JSON values are tagged: <<"str", s>>, <<"num", n>>, <<"null">>,
\* <<"arr", elements>>, <<"obj", members>> with members a sequence of
\* <<key, value>> in text order
NoParse == [ok |-> FALSE, val |-> <<"none">>, next |-> 0]
Parsed(v, n) == [ok |-> TRUE, val |-> v, next |-> n]

RECURSIVE ParseValue(_, _)
RECURSIVE ParseElements(_, _, _)
RECURSIVE ParseMembers(_, _, _)

ParseValue(s, i0) ==
  LET i == SkipSpace(s, i0)
  IN IF i > Len(s) THEN NoParse
     ELSE IF s[i] \in StringLexemes THEN Parsed(<<"str", Unquote[s[i]]>>, i + 1)
     ELSE IF s[i] \in NumberLexemes THEN Parsed(<<"num", s[i]>>, i + 1)
     ELSE IF s[i] = "null" THEN Parsed(<<"null">>, i + 1)
     ELSE IF s[i] = "["
       THEN LET j == SkipSpace(s, i + 1)
            IN IF j <= Len(s) /\ s[j] = "]" THEN Parsed(<<"arr", <<>>>>, j + 1)
               ELSE ParseElements(s, i + 1, <<>>)
     ELSE IF s[i] = "{"
       THEN LET j == SkipSpace(s, i + 1)
            IN IF j <= Len(s) /\ s[j] = "}" THEN Parsed(<<"obj", <<>>>>, j + 1)
               ELSE ParseMembers(s, i + 1, <<>>)
     ELSE NoParse

ParseElements(s, i, acc) ==
  LET v == ParseValue(s, i)
  IN IF ~v.ok THEN NoParse
     ELSE LET j == SkipSpace(s, v.next)
          IN IF j > Len(s) THEN NoParse
             ELSE IF s[j] = "," THEN ParseElements(s, j + 1, Append(acc, v.val))
             ELSE IF s[j] = "]" THEN Parsed(<<"arr", Append(acc, v.val)>>, j + 1)
             ELSE NoParse

ParseMembers(s, i0, acc) ==
  LET i == SkipSpace(s, i0)
  IN IF i > Len(s) \/ ~(s[i] \in StringLexemes) THEN NoParse
     ELSE LET c == SkipSpace(s, i + 1)
          IN IF c > Len(s) \/ s[c] # ":" THEN NoParse
             ELSE LET v == ParseValue(s, c + 1)
                  IN IF ~v.ok THEN NoParse
                     ELSE LET j == SkipSpace(s, v.next)
                              m == Append(acc, <<Unquote[s[i]], v.val>>)
                          IN IF j > Len(s) THEN NoParse
                             ELSE IF s[j] = "," THEN ParseMembers(s, j + 1, m)
                             ELSE IF s[j] = "}" THEN Parsed(<<"obj", m>>, j + 1)
                             ELSE NoParse

\* json.loads: one value, whitespace around it, nothing after it
json_loads(s) ==
  LET v == ParseValue(s, 1)
  IN IF v.ok /\ SkipSpace(s, v.next) > Len(s) THEN v ELSE NoParse

\* ----------------------------------------------- WordInfo (pydantic model)
StrFields == {"meaning", "image_prompt"}
ListFields == {"opposites", "similar_words", "sentences"}
Fields == StrFields \cup ListFields

HasKey(members, k) == \E n \in 1..Len(members) : members[n][1] = k

\* dict lookup: a repeated key keeps its last value
GetKey(members, k) ==
  LET n == CHOOSE n \in 1..Len(members) :
             /\ members[n][1] = k
             /\ \A q \in (n + 1)..Len(members) : members[q][1] # k
  IN members[n][2]

\* mutation: numbers are accepted for str fields
FieldValid_coerce(k, v) ==
  IF k \in StrFields THEN v[1] \in {"str", "num"}
  ELSE /\ v[1] = "arr"
       /\ \A n \in 1..Len(v[2]) : v[2][n][1] = "str"

\* a field value of the declared type (str, or list of str); decoded JSON
\* is validated as pydantic 2 does it: a number is not taken for a str
FieldValid(k, v) ==
  IF k \in StrFields THEN v[1] = "str"
  ELSE /\ v[1] = "arr"
       /\ \A n \in 1..Len(v[2]) : v[2][n][1] = "str"

FieldValue(k, v) ==
  IF k \in StrFields THEN v[2] ELSE [n \in 1..Len(v[2]) |-> v[2][n][2]]

\* WordInfo.parse_raw(text): the model, or ValidationError
Invalid == [ok |-> FALSE]
WordInfo_parse_raw(text) ==
  LET doc == json_loads(text)
  IN IF ~doc.ok \/ doc.val[1] # "obj" THEN Invalid
     ELSE IF \E k \in Fields : ~HasKey(doc.val[2], k) THEN Invalid
     ELSE IF \E k \in Fields : ~FieldValid(k, GetKey(doc.val[2], k)) THEN Invalid
     ELSE [ok |-> TRUE,
           data |-> [k \in Fields |-> FieldValue(k, GetKey(doc.val[2], k))]]

\* ----------------------------------------- get_word_details (l. 42-87)
\* what llm.invoke gives: an exception, a response whose content is a str,
\* or a response whose content is a list of content blocks (not a str)
Raised(e) == [kind |-> "raise", exc |-> e]
Content(t) == [kind |-> "content", text |-> t]
Blocks == [kind |-> "blocks"]

FormatError == "ValueError: AI response format error."

\* the result of get_word_details: a WordInfo or the exception it raises
\* mutation: a reply that does not validate is asked for once more
get_word_details_retry(replies) ==
  LET attempt(reply, n) ==
        IF reply.kind = "raise"
          THEN [status |-> "raise", exc |-> reply.exc, calls |-> n]
        ELSE IF reply.kind = "blocks"
          THEN [status |-> "raise", exc |-> "AttributeError", calls |-> n]
        ELSE LET model == WordInfo_parse_raw(Sanitize(reply.text))
             IN IF model.ok THEN [status |-> "ok", data |-> model.data, calls |-> n]
                ELSE [status |-> "raise", exc |-> FormatError, calls |-> n]
      first == attempt(replies[1], 1)
  IN IF first.status = "raise" /\ first.exc = FormatError
       THEN attempt(replies[2], 2)
       ELSE first

\* replies: what successive llm.invoke calls would give
get_word_details(replies) ==
  LET reply == replies[1]
  IN IF reply.kind = "raise"
       THEN [status |-> "raise", exc |-> reply.exc, calls |-> 1]
     ELSE IF reply.kind = "blocks"
       THEN [status |-> "raise", exc |-> "AttributeError", calls |-> 1]
     ELSE LET model == WordInfo_parse_raw(Sanitize(reply.text))
          IN IF model.ok THEN [status |-> "ok", data |-> model.data, calls |-> 1]
             ELSE [status |-> "raise", exc |-> FormatError, calls |-> 1]

\* ------------------------------------------------ replies of the model
\* A reply text is described by the payload it carries and the markup
\* around it.  The payload is the JSON object of the prompt (l. 59-66)
\* written out with some keys left out, one value of another type, or
\* its syntax broken; Render writes the description out as text.
FieldOrder == <<"meaning", "opposites", "similar_words", "sentences", "image_prompt">>
KeyLexeme(k) == CHOOSE x \in StringLexemes : Unquote[x] = k

WrongKinds == {"num", "null", "swap", "mixed"}
Malformations == {"no_close", "no_colon", "trailing_comma", "two_values",
                  "prose", "empty", "array_top"}
Variants == {"m1", "m2"}

StrText(k, variant) ==
  IF k = "meaning" THEN <<IF variant = "m1" THEN "\"m1\"" ELSE "\"m2\"">>
  ELSE <<"\"a sun\"">>

ListText(variant) ==
  IF variant = "m1" THEN <<"[", "\"w1\"", ",", " ", "\"w1\"", "]">>
  ELSE <<"[", "\"w1\"", "]">>

ValueText(k, variant, kind) ==
  CASE kind = "ok" -> IF k \in StrFields THEN StrText(k, variant) ELSE ListText(variant)
    [] kind = "num" -> <<"5">>
    [] kind = "null" -> <<"null">>
    [] kind = "swap" -> IF k \in StrFields THEN ListText(variant) ELSE <<"\"w1\"">>
    [] kind = "mixed" -> <<"[", "\"w1\"", ",", "5", "]">>

RECURSIVE MembersText(_, _)
MembersText(d, n) ==
  IF n > Len(FieldOrder) THEN <<>>
  ELSE LET k == FieldOrder[n]
           rest == MembersText(d, n + 1)
       IN IF k \in d.missing THEN rest
          ELSE <<KeyLexeme(k), ":", " ">>
               \o ValueText(k, d.variant, IF d.wrong = k THEN d.kind ELSE "ok")
               \o (IF rest = <<>> THEN <<>> ELSE <<",", " ">> \o rest)

ObjectText(d) == <<"{">> \o MembersText(d, 1) \o <<"}">>

RECURSIVE DropFirst(_, _)
DropFirst(s, c) ==
  IF s = <<>> THEN s
  ELSE IF Head(s) = c THEN Tail(s) ELSE <<Head(s)>> \o DropFirst(Tail(s), c)

Render(d) ==
  LET t == ObjectText(d)
  IN CASE d.malformed = "none" -> t
       [] d.malformed = "no_close" -> SubSeq(t, 1, Len(t) - 1)
       [] d.malformed = "no_colon" -> DropFirst(t, ":")
       [] d.malformed = "trailing_comma" -> SubSeq(t, 1, Len(t) - 1) \o <<",", "}">>
       [] d.malformed = "two_values" -> t \o <<" ">> \o t
       [] d.malformed = "prose" -> <<"s", "o", " ">> \o t
       [] d.malformed = "empty" -> <<>>
       [] d.malformed = "array_top" -> <<"[">> \o t \o <<"]">>

Payloads ==
  [missing : SUBSET Fields, wrong : {"none"}, kind : {"ok"},
   malformed : {"none"} \cup Malformations, variant : Variants]
  \cup
  [missing : {{}}, wrong : Fields, kind : WrongKinds,
   malformed : {"none"}, variant : Variants]

\* the payload the prompt asks for
Valid(variant) ==
  [missing |-> {}, wrong |-> "none", kind |-> "ok", malformed |-> "none",
   variant |-> variant]

Defective(d) == d.missing # {} \/ d.wrong # "none" \/ d.malformed # "none"

\* the record a payload without defect describes
Described(d) ==
  [k \in Fields |->
     IF k = "meaning" THEN d.variant
     ELSE IF k = "image_prompt" THEN "a sun"
     ELSE IF d.variant = "m1" THEN <<"w1", "w1">> ELSE <<"w1">>]

\* markup around the payload
Wrappers == {"bare", "json", "json_tight", "json_spaced", "plain",
             "plain_tight", "open_only", "close_only"}
FencedWrappers == {"json", "json_tight", "json_spaced", "plain", "plain_tight"}

Wrap(w, t) ==
  CASE w = "bare" -> t
    [] w = "json" -> JsonFence \o <<"\n">> \o t \o <<"\n">> \o Fence
    [] w = "json_tight" -> JsonFence \o t \o Fence
    [] w = "json_spaced" ->
         <<"\n">> \o JsonFence \o <<" ", "\n">> \o t \o <<"\n", "\n">> \o Fence \o <<" ", "\n">>
    [] w = "plain" -> Fence \o <<"\n">> \o t \o <<"\n">> \o Fence
    [] w = "plain_tight" -> Fence \o t \o Fence
    [] w = "open_only" -> JsonFence \o <<"\n">> \o t
    [] w = "close_only" -> t \o <<"\n">> \o Fence

VARIABLES
  credential,     \* os.getenv("CLAUDE_API_KEY"), l. 13
  ui,             \* what the last run of the script showed
  hasHistory,     \* "history" in st.session_state
  history,        \* st.session_state.history: <<word, record>> in insertion order
  word,           \* the value of the text input, l. 134
  info,           \* what get_word_details gave in the last run, l. 144
  image,          \* what get_image_for_word gave in the last run, l. 145
  response,       \* what requests.get gave in the last run, l. 98
  llmCalls,       \* llm.invoke calls made by the last run
  imgCalls,       \* requests.get calls made by the last run
  payload, wrapper, response_text, cleaned, parsed, lpc

appVars == <<credential, ui, hasHistory, history, word, info, image, response,
             llmCalls, imgCalls>>
lookupVars == <<payload, wrapper, response_text, cleaned, parsed, lpc>>
vars == <<appVars, lookupVars>>

\* ------------------------------------------------------------ the script
None == "None"
NoInfo == [status |-> "none", calls |-> 0]
NoImage == [status |-> "none", calls |-> 0]
NoResponse == [exc |-> "", status_code |-> 0]

\* nothing has run yet
AppIdle ==
  /\ ui = "none"
  /\ hasHistory = FALSE
  /\ history = <<>>
  /\ word = <<>>
  /\ info = NoInfo
  /\ image = NoImage
  /\ response = NoResponse
  /\ llmCalls = 0
  /\ imgCalls = 0

\* ------------------------------------ get_word_details on one reply text
\* l. 71-72: the model has answered with some text
LookupInit ==
  /\ credential = "key"
  /\ payload \in Payloads
  /\ wrapper \in Wrappers
  /\ response_text = Wrap(wrapper, Render(payload))
  /\ cleaned = <<>>
  /\ parsed = Invalid
  /\ lpc = "replied"
  /\ AppIdle

\* l. 76-78
SanitizeStep ==
  /\ lpc = "replied"
  /\ cleaned' = Sanitize(response_text)
  /\ lpc' = "cleaned"
  /\ UNCHANGED <<payload, wrapper, response_text, parsed>>
  /\ UNCHANGED appVars

\* l. 82-87
ValidateStep ==
  /\ lpc = "cleaned"
  /\ parsed' = WordInfo_parse_raw(cleaned)
  /\ lpc' = IF parsed'.ok THEN "returned" ELSE "format_error"
  /\ UNCHANGED <<payload, wrapper, response_text, cleaned>>
  /\ UNCHANGED appVars

LookupNext == SanitizeStep \/ ValidateStep

SpecLookup == LookupInit /\ [][LookupNext]_vars

\* ------------------------------------- get_image_for_word (l. 91-105)
\* description.replace(" ", "+") inside the URL template, on the
\* descriptions that occur
ImageURL(description) ==
  IF description = "a sun"
    THEN "https://source.unsplash.com/512x512/?a+sun,cartoon,colorful"
    ELSE "https://source.unsplash.com/512x512/?,cartoon,colorful"

\* what requests.get gives: a response with a status code, or an exception
Responded(code) == [exc |-> "", status_code |-> code]
Failed(e) == [exc |-> e, status_code |-> 0]
ImageResponses ==
  {Responded(200), Responded(404), Failed("ConnectionError"), Failed("Timeout")}
\* what a second request would give
NextImageResponse == Responded(200)

\* mutation: only connection errors are handled
get_image_for_word_narrow(description, responses) ==
  LET res == responses[1]
  IN IF res.exc = "ConnectionError"
       THEN [status |-> "return", value |-> None, calls |-> 1]
     ELSE IF res.exc # ""
       THEN [status |-> "raise", exc |-> res.exc, value |-> None, calls |-> 1]
     ELSE IF res.status_code = 200
       THEN [status |-> "return", value |-> ImageURL(description), calls |-> 1]
       ELSE [status |-> "return", value |-> None, calls |-> 1]

\* responses: what successive requests.get calls would give
get_image_for_word(description, responses) ==
  LET res == responses[1]
  IN IF res.exc # "" THEN [status |-> "return", value |-> None, calls |-> 1]
     ELSE IF res.status_code = 200
       THEN [status |-> "return", value |-> ImageURL(description), calls |-> 1]
       ELSE [status |-> "return", value |-> None, calls |-> 1]

\* ------------------------------------------ the language model (l. 71)
Replies ==
  {Content(Wrap("json", Render(Valid("m1")))),
   Content(Render(Valid("m2"))),
   Content(Wrap("plain", Render(Valid("m1")))),
   Content(Render([Valid("m1") EXCEPT !.missing = {"sentences"}])),
   Raised("APIConnectionError"),
   Blocks}
\* what the model would answer if it were asked again
NextReply == Content(Render(Valid("m2")))

\* get_word_details for each first reply of the model
Looked == [r \in Replies |-> get_word_details(<<r, NextReply>>)]

\* --------------------------------------- st.session_state.history (dict)
Keys(d) == {d[n][1] : n \in 1..Len(d)}

\* d[k]
dict_getitem(d, k) == d[CHOOSE n \in 1..Len(d) : d[n][1] = k][2]

\* mutation: every store adds an entry
dict_setitem_append(d, k, v) == Append(d, <<k, v>>)

\* mutation: a store moves the entry to the end
dict_setitem_move(d, k, v) ==
  Append(SelectSeq(d, LAMBDA e : e[1] # k), <<k, v>>)

\* d[k] = v
dict_setitem(d, k, v) ==
  IF k \in Keys(d)
    THEN [n \in 1..Len(d) |-> IF d[n][1] = k THEN <<k, v>> ELSE d[n]]
    ELSE Append(d, <<k, v>>)

\* info.dict()
WordInfo_dict(data) == [k \in Fields |-> data[k]]

\* ------------------------------------------------------------ the inputs
Alphabet == {"a", "A", " "}
max_chars == 30
WordLens == {n \in 0..MaxWordLen : n <= max_chars}
Words == UNION {[1..n -> Alphabet] : n \in WordLens}
Credentials == {None, "", "key"}

\* ---------------------------------------------------------- the actions
Init ==
  /\ credential \in Credentials
  /\ AppIdle
  /\ payload = Valid("m1")
  /\ wrapper = "bare"
  /\ response_text = <<>>
  /\ cleaned = <<>>
  /\ parsed = Invalid
  /\ lpc = "idle"

\* mutation: the startup check is skipped
KeyMissing_never(c) == FALSE

\* l. 15: not anthropic_api_key
KeyMissing(c) == c = None \/ c = ""

\* l. 12-18: any run of the script without the credential stops at the raise
ConfigError ==
  /\ KeyMissing(credential)
  /\ ui' = "config_error"
  /\ UNCHANGED <<credential, hasHistory, history, word, info, image, response,
                 llmCalls, imgCalls>>
  /\ UNCHANGED lookupVars

\* mutation: the history is created anew by every run
SessionHistory_reset == <<>>

\* l. 130-131
SessionHistory == IF hasHistory THEN history ELSE <<>>

\* the history is kept within MaxHistory entries: a word that would add an
\* entry beyond that is not entered
Fits(w) ==
  lower(strip(w)) \in Keys(SessionHistory) \cup {<<>>}
    \/ Len(SessionHistory) < MaxHistory

\* a run of the script in which the button was not pressed: the page is
\* opened, or the text input was set to w (l. 130-137 and 183-192)
Load(w) ==
  /\ ~KeyMissing(credential)
  /\ Fits(w)
  /\ hasHistory' = TRUE
  /\ history' = SessionHistory
  /\ word' = w
  /\ ui' = "idle"
  /\ info' = NoInfo
  /\ image' = NoImage
  /\ response' = NoResponse
  /\ llmCalls' = 0
  /\ imgCalls' = 0
  /\ UNCHANGED credential
  /\ UNCHANGED lookupVars

\* mutation: only the format error is handled
Caught_format_only(exc) == exc = FormatError

\* l. 178: except Exception
Caught(exc) == TRUE

\* a run of the script in which the button was pressed; the text input
\* holds the word it was last set to, and the model and the image endpoint
\* answer when they are called
ExploreWord ==
  /\ ~KeyMissing(credential)
  /\ ui \notin {"none", "config_error"}
  /\ hasHistory' = TRUE
  /\ UNCHANGED word
  /\ UNCHANGED credential
  /\ UNCHANGED lookupVars
  /\ IF strip(word) = <<>>
       THEN \* l. 138-139
            /\ ui' = "warning"
            /\ history' = SessionHistory
            /\ info' = NoInfo
            /\ image' = NoImage
            /\ response' = NoResponse
            /\ llmCalls' = 0
            /\ imgCalls' = 0
       ELSE \* l. 141-180
            \E reply \in Replies :
              LET key == lower(strip(word))
                  looked == Looked[reply]
              IN /\ info' = looked
                 /\ llmCalls' = looked.calls
                 /\ IF looked.status # "ok"
                      THEN \* l. 178-180
                           /\ ui' = IF Caught(looked.exc) THEN "error" ELSE "uncaught"
                           /\ history' = SessionHistory
                           /\ image' = NoImage
                           /\ response' = NoResponse
                           /\ imgCalls' = 0
                      ELSE \* l. 145-176
                           \E res \in ImageResponses :
                             LET img == get_image_for_word(looked.data["image_prompt"],
                                                           <<res, NextImageResponse>>)
                             IN /\ image' = img
                                /\ response' = res
                                /\ imgCalls' = img.calls
                                /\ IF img.status # "return"
                                     THEN /\ ui' = IF Caught(img.exc) THEN "error"
                                                   ELSE "uncaught"
                                          /\ history' = SessionHistory
                                     ELSE /\ history' =
                                               dict_setitem(SessionHistory, key,
                                                            WordInfo_dict(looked.data))
                                          /\ ui' = "success"

Next ==
  \/ ConfigError
  \/ \E w \in Words : Load(w)
  \/ ExploreWord

Spec == Init /\ [][Next]_vars

\* =============================================================== claims
Pressed(u) == u \in {"warning", "success", "error", "uncaught"}
Blank(w) == \A n \in 1..Len(w) : w[n] \in WS
IsNormal(k) ==
  /\ k # <<>>
  /\ k[1] \notin WS
  /\ k[Len(k)] \notin WS
  /\ \A n \in 1..Len(k) : k[n] # "A"
KeySeq(d) == [n \in 1..Len(d) |-> d[n][1]]
Entries(d, k) == {n \in 1..Len(d) : d[n][1] = k}
FormatFailed(i) == i.status = "raise" /\ i.exc = FormatError

\* C1: a trigger whose lookup fails with the format error leaves the
\* history exactly as it was
C1_FormatErrorKeepsHistory ==
  [][(Pressed(ui') /\ FormatFailed(info')) => history' = history]_vars

C1_Witness ==
  /\ ui = "error"
  /\ FormatFailed(info)
  /\ history # <<>>
  /\ ~Blank(word)
  /\ \A n \in 1..Len(history) : history[n][1] # <<"a">>
  /\ word = <<"A">>

\* C2: a trigger with an empty or whitespace-only input takes the warning
\* path: no model call, no image request, history unchanged
C2_BlankInputWarns ==
  [][(Pressed(ui') /\ Blank(word'))
       => /\ ui' = "warning"
          /\ llmCalls' = 0
          /\ imgCalls' = 0
          /\ history' = history]_vars

C2_Witness ==
  /\ ui = "warning"
  /\ word = <<" ">>
  /\ history # <<>>

\* C3: the history has at most one entry per normalized word, its keys are
\* normalized, a successful lookup leaves the record it returned under the
\* normalized input and changes no other entry, and nothing else changes
\* the history
C3_OneEntryLastWriteWins ==
  /\ [](\A n \in 1..Len(history) :
          /\ IsNormal(history[n][1])
          /\ Cardinality(Entries(history, history[n][1])) = 1)
  /\ [][IF ui' = "success"
          THEN \E k \in Keys(history') :
                 /\ IsNormal(k)
                 /\ \E pre, post \in {<<>>, <<" ">>, <<" ", " ">>} :
                      lower(word') = lower(pre \o k \o post)
                 /\ dict_getitem(history', k) = info'.data
                 /\ Keys(history') = Keys(history) \cup {k}
                 /\ \A o \in Keys(history) \ {k} :
                      dict_getitem(history', o) = dict_getitem(history, o)
          ELSE history' = history]_vars

C3_Witness ==
  /\ ui = "success"
  /\ word = <<"A", " ">>
  /\ Len(history) = 2
  /\ info.data["meaning"] = "m2"
  /\ dict_getitem(history, <<"a">>)["meaning"] = "m2"

\* C4 as claimed: after a successful lookup the entry of the word is the
\* last one of the history
C4_Original ==
  ui = "success" => history[Len(history)][1] = lower(strip(word))

\* C4 amended: a successful lookup of a word that has no entry appends its
\* entry; a successful lookup of a word that has one keeps the order of
\* the entries
C4_OrderOfFirstLookup ==
  [][ui' = "success"
       => LET k == lower(strip(word'))
          IN IF k \in Keys(history)
               THEN KeySeq(history') = KeySeq(history)
               ELSE KeySeq(history') = Append(KeySeq(history), k)]_vars

C4_Witness ==
  /\ ui = "success"
  /\ Len(history) = 2
  /\ history[1][1] = lower(strip(word))
  /\ history[1][2]["meaning"] # history[2][2]["meaning"]

\* C5: whatever the image request gives other than status 200,
\* get_image_for_word returns None and does not raise, and the lookup
\* goes on: the record is stored and the success result is shown
C5_ImageFailureAbsorbed ==
  (info.status = "ok" /\ (response.exc # "" \/ response.status_code # 200))
    => /\ image.status = "return"
       /\ image.value = None
       /\ ui = "success"
       /\ \E n \in 1..Len(history) :
            /\ history[n][1] = lower(strip(word))
            /\ history[n][2] = info.data

C5_Witness ==
  /\ ui = "success"
  /\ response.exc = "Timeout"
  /\ image.value = None
  /\ Len(history) = 1

C9_FailFast ==
  (credential = None \/ credential = "")
    => /\ ui \in {"none", "config_error"}
       /\ ~hasHistory
       /\ history = <<>>
       /\ llmCalls = 0
       /\ imgCalls = 0
       /\ ~ENABLED (\E w \in Words : Load(w))
       /\ ~ENABLED ExploreWord

C9_Witness == ui = "config_error" /\ credential = ""

\* C10: any failure of get_word_details is caught by the handler: the
\* error is shown, no image request is made, the history is unchanged,
\* and the button can be pressed again with a lookup that succeeds
C10_AnyLookupFailureCaught ==
  /\ [][(Pressed(ui') /\ info'.status = "raise")
          => /\ ui' = "error"
             /\ imgCalls' = 0
             /\ image' = NoImage
             /\ history' = history]_vars
  /\ [](info.status = "raise"
          => ENABLED (ExploreWord /\ ui' = "success"))

C10_Witness ==
  /\ ui = "error"
  /\ info.status = "raise"
  /\ info.exc = "AttributeError"
  /\ history # <<>>

\* ------------------------------------------- claims on get_word_details
HasMarkup(t) == \E n \in 1..Len(t) : t[n] = Backtick

\* C7: a cleaned text that is not the JSON object with the five keys, each
\* of its declared type, gives the format error; a returned record has
\* exactly the fields of the text (nothing partial, nothing defaulted)
C7_InvalidTextIsFormatError ==
  lpc \in {"returned", "format_error"}
    => /\ (HasMarkup(cleaned) \/ (cleaned = Render(payload) /\ Defective(payload)))
            => (lpc = "format_error" /\ ~parsed.ok)
       /\ parsed.ok => (cleaned = Render(payload) /\ parsed.data = Described(payload))

C7_Witness ==
  /\ lpc = "format_error"
  /\ cleaned = Render(payload)
  /\ payload.wrong = "opposites"
  /\ payload.kind = "mixed"

\* C8 as claimed: for a reply that is a payload between an opening fence,
\* with or without the json tag, and a closing fence, the cleaned text is
\* the payload
C8_Original ==
  (lpc # "replied" /\ wrapper \in FencedWrappers) => cleaned = Render(payload)

====
